---- MODULE Spec2Model ----
(***************************************************************************)
(* State-machine model of the item store backend:                          *)
(*   - the statistics cache (getStats, calculateStats, getFileModTime and  *)
(*     the watchFile listener), as listed in src/SOLUTION.md 305-443;      *)
(*   - the POST /api/items handler of src/backend/src/routes/items.js,     *)
(*     which is the only writer of the data file.                          *)
(* Every `await` of the code is a suspension point: the handler's code up  *)
(* to the await is one atomic step (the event loop runs one continuation   *)
(* at a time), and the completion of the awaited I/O is the next step of   *)
(* that handler.                                                           *)
(*                                                                         *)
(* Encodings.  Strings are sequences of one-character strings.  JS null is *)
(* Null for the cached statistics and NoMarker for the cached timestamp.   *)
(* averagePrice is kept in hundredths (the code rounds it to 2 decimals).  *)
(* Timestamps are in clock ticks of one millisecond (Date.now() and        *)
(* Date.prototype.getTime() both have that resolution).                    *)
(***************************************************************************)
EXTENDS Integers, Sequences, FiniteSets, TLC

\* Number of getStats() invocations in a behaviour; they are numbered in the
\* order in which they are issued.
NumCalls == 3
\* Number of POST /api/items requests in a behaviour, numbered likewise.
NumWriters == 2
\* Number of requests (getStats() invocations and POSTs together) in a behaviour.
MaxRequests == 4
\* Number of requests in a behaviour of the small workload (SpecSmall).
SmallRequests == 3
\* Number of requests in a behaviour of the POST-only workload (SpecPost).
PostRequests == 2
\* Number of requests in a behaviour of the validation workload (SpecValidate).
ValidateRequests == 1
\* Largest number of records in the file of the listing workload (SpecList).
MaxItems == 4
\* Page numbers requested in the listing workload: -MaxPage..MaxPage.
MaxPage == 4
\* Page sizes requested in the listing workload: -MaxLimit..MaxLimit.
MaxLimit == 3
\* Number of requests in a behaviour of the aggregation workload (SpecStats).
StatsRequests == 1
\* Largest number of freely chosen records in the file of SpecStats.
MaxStatItems == 2
\* Largest price of a freely chosen record in SpecStats.
MaxPrice == 2
\* Number of records in the files of SpecStats whose average price falls on
\* half a hundredth.
TieItems == 8
\* Milliseconds per tick of the browser clock of the component workload (SpecUi).
TickMs == 100
\* Last tick of the browser clock in SpecUi.
MaxUiClock == 6
\* Number of user events (search input changes, page clicks) in SpecUi.
MaxUiEvents == 3
\* Number of requests in a behaviour of the fair workload (SpecLive).
LiveRequests == 2
\* Last millisecond of the clock.
MaxClock == 2
\* The retry cap the wait loop is claimed to have ("a small fixed number").
RetryCap == 1
\* The wait counter saturates one above the claimed cap.
MaxWaits == RetryCap + 1

Calls == 1..NumCalls
Writers == 1..NumWriters

Null == [isNull |-> TRUE]
NoMarker == -1

Min(a, b) == IF a < b THEN a ELSE b
Max(a, b) == IF a > b THEN a ELSE b

RECURSIVE SeqSum(_)
SeqSum(s) == IF s = <<>> THEN 0 ELSE Head(s) + SeqSum(Tail(s))

RECURSIVE SeqMin(_)
SeqMin(s) == IF Len(s) = 1 THEN s[1] ELSE Min(Head(s), SeqMin(Tail(s)))

RECURSIVE SeqMax(_)
SeqMax(s) == IF Len(s) = 1 THEN s[1] ELSE Max(Head(s), SeqMax(Tail(s)))

----------------------------------------------------------------------------
(* JavaScript values of a request body *)

Undefined == [t |-> "undefined", s |-> <<>>, n |-> 0]
Str(s) == [t |-> "string", s |-> s, n |-> 0]
Num(n) == [t |-> "number", s |-> <<>>, n |-> n]
JsNull == [t |-> "null", s |-> <<>>, n |-> 0]

IsSpace(ch) == ch = " "

RECURSIVE TrimStart(_)
TrimStart(s) ==
    IF s # <<>> /\ IsSpace(Head(s)) THEN TrimStart(Tail(s)) ELSE s

RECURSIVE TrimEnd(_)
TrimEnd(s) ==
    IF s # <<>> /\ IsSpace(s[Len(s)]) THEN TrimEnd(SubSeq(s, 1, Len(s) - 1)) ELSE s

\* String.prototype.trim
Trim(s) == TrimEnd(TrimStart(s))

\* !v for the values above
Falsy(v) ==
    \/ v.t = "undefined"
    \/ v.t = "null"
    \/ v.t = "string" /\ v.s = <<>>
    \/ v.t = "number" /\ v.n = 0

\* !name || typeof name !== 'string' || name.trim().length === 0
BadText(v) == Falsy(v) \/ v.t # "string" \/ Len(Trim(v.s)) = 0

\* A price check written with !price.
BadPriceFalsy(v) == Falsy(v) \/ v.t # "number" \/ v.n < 0

\* price === undefined || price === null || typeof price !== 'number' || price < 0
BadPrice(v) == v.t = "undefined" \/ v.t = "null" \/ v.t # "number" \/ v.n < 0

\* The field the handler's validation rejects first, "" when it accepts.
Validate(body) ==
    IF BadText(body.name) THEN "name"
    ELSE IF BadText(body.category) THEN "category"
    ELSE IF BadPrice(body.price) THEN "price"
    ELSE ""

\* The item the handler builds from a valid body at time `now`.
NewItem(body, now) ==
    [id |-> now,
     name |-> Trim(body.name.s),
     category |-> Trim(body.category.s),
     price |-> body.price.n]

----------------------------------------------------------------------------
(* calculateStats *)

\* A record of the data file whose price is missing (undefined).
NoPrice == -1

\* cur.price || 0
PriceOr0(item) == IF item.price = NoPrice THEN 0 ELSE item.price

\* item.category || 'Unknown'
CategoryOrUnknown(item) ==
    IF item.category = <<>> THEN <<"U", "n", "k", "n", "o", "w", "n">>
    ELSE item.category

\* The quotient num / den cut off after the hundredths.
TruncateHundredths(num, den) == (100 * num) \div den

\* Math.round(x * 100) of the quotient num / den (den > 0, num >= 0):
\* round half up, in hundredths.
RoundHundredths(num, den) == (200 * num + den) \div (2 * den)

\* An empty-set result whose price range is left unset.
EmptyStatsNoRange ==
    [total |-> 0,
     averagePrice |-> 0,
     categories |-> << >>,
     priceRange |-> [min |-> NoPrice, max |-> NoPrice]]

EmptyStats ==
    [total |-> 0,
     averagePrice |-> 0,
     categories |-> << >>,
     priceRange |-> [min |-> 0, max |-> 0]]

calculateStats(items) ==
    IF Len(items) = 0 THEN EmptyStats
    ELSE
        LET total == Len(items)
            prices == [i \in 1..total |-> PriceOr0(items[i])]
            totalPrice == SeqSum(prices)
            cats == {CategoryOrUnknown(items[i]) : i \in 1..total}
        IN  [total |-> total,
             averagePrice |-> RoundHundredths(totalPrice, total),
             categories |->
                 [c \in cats |->
                     Cardinality({i \in 1..total : CategoryOrUnknown(items[i]) = c})],
             priceRange |-> [min |-> SeqMin(prices), max |-> SeqMax(prices)]]

----------------------------------------------------------------------------
(* State *)

VARIABLES
    clock,        \* Date.now(), in milliseconds
    file,         \* the data file: content, mtime (ms), gen (number of writes)
    history,      \* history[g + 1] is the content the file held at generation g
    statsCache,   \* [data, lastModified, isCalculating]
    watcher,      \* the stat the watchFile poll saw last
    calls,        \* per getStats() invocation: position, locals and outcome
                  \* (waits counts the waits of a pending invocation)
    posts,        \* per POST request: position, locals and response
    created,      \* TRUE when a POST has succeeded and no getStats() was issued since
    list,         \* the GET /api/items request: position, query and response
    lookup,       \* the GET /api/items/:id request: position, parameter and response
    ui            \* the Items component: its state, timers and requests

vars ==
    <<clock, file, history, statsCache, watcher, calls, posts, created, list, lookup,
      ui>>

\* Request bodies of the POST requests.
BodyA == [name |-> Str(<<"a">>), category |-> Str(<<"x">>), price |-> Num(2)]
BodyBad == [name |-> Str(<<"c">>), category |-> Str(<<"x">>), price |-> Num(-1)]
Bodies == {BodyA, BodyBad}

\* Contents the data file may hold when the server starts.
Item0 == [id |-> 0, name |-> <<"z">>, category |-> <<"x">>, price |-> 4]
InitContents == {<<Item0>>}

IdleCall ==
    [pc |-> "idle", currentModTime |-> NoMarker, waits |-> 0,
     result |-> Null, how |-> "none", rejected |-> "none", error |-> << >>,
     startGen |-> 0, endGen |-> 0, prior |-> {},
     startEmpty |-> FALSE, afterCreate |-> FALSE]

\* No error thrown.
NoError == [name |-> "", status |-> 0, message |-> << >>]

\* new Error(message) with err.status = status (0: the property is not set).
JsError(status, message) == [name |-> "Error", status |-> status, message |-> message]

\* The test application's error middleware: res.status(err.status || 500).
ResponseStatus(err) == IF err.status = 0 THEN 500 ELSE err.status

IdlePost ==
    [pc |-> "idle", body |-> Null, item |-> Null, data |-> << >>,
     status |-> 0, field |-> "", rejected |-> "none", error |-> NoError]

\* A JavaScript number that may be NaN.
NaN == [nan |-> TRUE, n |-> 0]
Finite(n) == [nan |-> FALSE, n |-> n]

NoPagination ==
    [page |-> NaN, pageSize |-> 0, totalItems |-> 0, totalPages |-> 0,
     hasNextPage |-> FALSE, hasPrevPage |-> FALSE]

IdleList ==
    [pc |-> "idle", q |-> Undefined, limit |-> Undefined, page |-> Undefined,
     status |-> 0, items |-> << >>, pagination |-> NoPagination, error |-> NoError,
     seen |-> << >>]

IdleLookup ==
    [pc |-> "idle", id |-> Undefined, status |-> 0, item |-> Null,
     rejected |-> "none", error |-> NoError]

\* A request started by the component: its kind ("initial", "search" or
\* "page"), the tick at which it was issued, its query and page, whether its
\* AbortController was aborted, and its position.
UiRequest(kind, at, query) ==
    [kind |-> kind, at |-> at, query |-> query, page |-> 1, aborted |-> FALSE,
     pc |-> "pending"]

\* The component after its first render and its mount effect: the state
\* hooks hold their initial values and loadInitialItems() awaits fetchItems.
MountedItems ==
    [mounted |-> TRUE, now |-> 0, localSearchQuery |-> "", error |-> FALSE,
     searchTimeout |-> 0, timers |-> {}, lastTimer |-> 0,
     requests |-> <<UiRequest("initial", 0, "")>>,
     changes |-> << >>, events |-> 0, lateIssue |-> FALSE, lateUpdate |-> FALSE,
     loading |-> TRUE, searchQuery |-> "", page |-> 1, held |-> 0]

Init ==
    /\ clock = 1
    /\ \E c \in InitContents :
          /\ file = [content |-> c, mtime |-> 0, gen |-> 0]
          /\ history = <<c>>
    /\ statsCache = [data |-> Null, lastModified |-> NoMarker, isCalculating |-> FALSE]
    /\ watcher = [mtime |-> 0, gen |-> 0]
    /\ calls = [c \in Calls |-> IdleCall]
    /\ posts = [w \in Writers |-> IdlePost]
    /\ created = FALSE
    /\ list = IdleList
    /\ lookup = IdleLookup
    /\ ui = MountedItems

----------------------------------------------------------------------------
(* The clock and the workload *)

\* Requests received so far.
Issued ==
    Cardinality({c \in Calls : calls[c].pc # "idle"})
        + Cardinality({w \in Writers : posts[w].pc # "idle"})

Tick ==
    /\ clock < MaxClock
    /\ clock' = clock + 1
    /\ UNCHANGED <<file, history, statsCache, watcher, calls, posts, created, list, lookup, ui>>

----------------------------------------------------------------------------
(* getStats *)

\* getStats() is invoked: it runs up to `await getFileModTime()`.
\* `budget` is the number of requests of the workload.
GetStatsCall(c, budget) ==
    /\ calls[c].pc = "idle"
    /\ \A d \in Calls : d < c => calls[d].pc # "idle"
    /\ Issued < budget
    /\ calls' = [calls EXCEPT ![c] =
          [@ EXCEPT !.pc = "stat",
                    !.startGen = file.gen,
                    !.prior = {d \in Calls : calls[d].pc = "done"},
                    !.startEmpty = (statsCache.data = Null),
                    !.afterCreate = created]]
    /\ created' = FALSE
    /\ UNCHANGED <<clock, file, history, statsCache, watcher, posts, list, lookup, ui>>

\* stats.mtime.getTime()
getFileModTime == file.mtime

\* statsCache.data && statsCache.lastModified === currentModTime
CacheValid(currentModTime) ==
    statsCache.data # Null /\ statsCache.lastModified = currentModTime

\* fs.stat resolved: the cache check, the in-flight check, or the start
\* of a calculation.
StatDone(c) ==
    /\ calls[c].pc = "stat"
    /\ LET currentModTime == getFileModTime IN
       IF CacheValid(currentModTime) THEN
           /\ calls' = [calls EXCEPT ![c] =
                 [@ EXCEPT !.pc = "done", !.currentModTime = currentModTime,
                           !.result = statsCache.data, !.how = "hit",
                           !.waits = 0, !.endGen = file.gen]]
           /\ UNCHANGED statsCache
       ELSE IF statsCache.isCalculating THEN
           /\ calls' = [calls EXCEPT ![c] =
                 [@ EXCEPT !.pc = "wait", !.currentModTime = currentModTime]]
           /\ UNCHANGED statsCache
       ELSE
           /\ statsCache' = [statsCache EXCEPT !.isCalculating = TRUE]
           /\ calls' = [calls EXCEPT ![c] =
                 [@ EXCEPT !.pc = "read", !.currentModTime = currentModTime]]
    /\ UNCHANGED <<clock, file, history, watcher, posts, created, list, lookup, ui>>

\* What the outer catch of getStats does to the cache.
OuterCatch(cache) == [cache EXCEPT !.isCalculating = FALSE]

\* throw new Error(`Failed to calculate stats: ${error.message}`)
Rethrow(call, message) ==
    [call EXCEPT !.pc = "failed", !.waits = 0,
                 !.error = <<"Failed to calculate stats">> \o message]

\* A variant that answers from the cache when the marker is unobtainable.
OnStatErrorServesStale(call, cache) ==
    IF cache.data # Null
    THEN [call EXCEPT !.pc = "done", !.waits = 0, !.result = cache.data, !.how = "hit"]
    ELSE Rethrow(call, <<"Failed to get file stats", "stat">>)

\* The catch of getFileModTime followed by the outer catch of getStats.
OnStatError(call, cache) == Rethrow(call, <<"Failed to get file stats", "stat">>)

\* fs.stat rejected: getFileModTime throws, the outer catch runs.
StatFail(c) ==
    /\ calls[c].pc = "stat"
    /\ statsCache' = OuterCatch(statsCache)
    /\ calls' = [calls EXCEPT ![c] =
          OnStatError([@ EXCEPT !.rejected = "stat", !.endGen = file.gen], statsCache)]
    /\ UNCHANGED <<clock, file, history, watcher, posts, created, list, lookup, ui>>

\* The 100 ms timer fired: `return getStats()` runs up to its await.
WaitElapsed(c) ==
    /\ calls[c].pc = "wait"
    /\ calls' = [calls EXCEPT ![c] =
          [@ EXCEPT !.pc = "stat", !.currentModTime = NoMarker,
                    !.waits = Min(@ + 1, MaxWaits)]]
    /\ UNCHANGED <<clock, file, history, statsCache, watcher, posts, created, list, lookup, ui>>

\* An update that stores the result and leaves the in-flight flag set.
UpdateCacheKeepsFlag(cache, stats, currentModTime) ==
    [data |-> stats, lastModified |-> currentModTime, isCalculating |-> cache.isCalculating]

\* The cache after a successful calculation.
UpdateCache(cache, stats, currentModTime) ==
    [data |-> stats, lastModified |-> currentModTime, isCalculating |-> FALSE]

\* fs.readFile resolved and JSON.parse succeeded.
ReadDone(c) ==
    /\ calls[c].pc = "read"
    /\ LET items == file.content
           stats == calculateStats(items)
       IN  /\ statsCache' = UpdateCache(statsCache, stats, calls[c].currentModTime)
           /\ calls' = [calls EXCEPT ![c] =
                 [@ EXCEPT !.pc = "done", !.result = stats, !.how = "computed",
                           !.waits = 0, !.endGen = file.gen]]
    /\ UNCHANGED <<clock, file, history, watcher, posts, created, list, lookup, ui>>

\* A variant that empties the entry when the calculation fails.
ReadCatchEmptiesEntry(cache) ==
    [data |-> Null, lastModified |-> NoMarker, isCalculating |-> FALSE]

\* Catches that rethrow and leave the in-flight flag set.
ReadCatchKeepsFlag(cache) == cache

\* What the inner catch followed by the outer catch does to the cache.
ReadCatch(cache) == OuterCatch([cache EXCEPT !.isCalculating = FALSE])

\* fs.readFile rejected or JSON.parse threw.
ReadFail(c) ==
    /\ calls[c].pc = "read"
    /\ statsCache' = ReadCatch(statsCache)
    /\ calls' = [calls EXCEPT ![c] =
          Rethrow([@ EXCEPT !.rejected = "read", !.endGen = file.gen], <<"read">>)]
    /\ UNCHANGED <<clock, file, history, watcher, posts, created, list, lookup, ui>>

----------------------------------------------------------------------------
(* The watchFile listener *)

\* A Date object: its identity and its time value.
DateOf(ref, ms) == [ref |-> ref, ms |-> ms]

\* a !== b on two objects compares their identities.
StrictNotEqual(a, b) == a.ref # b.ref

\* A listener that drops the statistics and keeps the marker.
WatchListenerKeepsMarker(cache, curr, prev) ==
    IF StrictNotEqual(curr.mtime, prev.mtime)
    THEN [cache EXCEPT !.data = Null]
    ELSE cache

\* A listener that resets the whole entry, the in-flight flag included.
WatchListenerClearsFlag(cache, curr, prev) ==
    IF StrictNotEqual(curr.mtime, prev.mtime)
    THEN [data |-> Null, lastModified |-> NoMarker, isCalculating |-> FALSE]
    ELSE cache

\* The listener body on (curr, prev).
WatchListener(cache, curr, prev) ==
    IF StrictNotEqual(curr.mtime, prev.mtime)
    THEN [cache EXCEPT !.data = Null, !.lastModified = NoMarker]
    ELSE cache

\* The 1000 ms poll found the file's stat changed since the last poll and
\* calls the listener with two fresh Stats objects.
WatcherPoll ==
    /\ watcher # [mtime |-> file.mtime, gen |-> file.gen]
    /\ LET curr == [mtime |-> DateOf("curr", file.mtime)]
           prev == [mtime |-> DateOf("prev", watcher.mtime)]
       IN  statsCache' = WatchListener(statsCache, curr, prev)
    /\ watcher' = [mtime |-> file.mtime, gen |-> file.gen]
    /\ UNCHANGED <<clock, file, history, calls, posts, created, list, lookup, ui>>

----------------------------------------------------------------------------
(* POST /api/items *)

\* A handler that answers 400 and goes on to the store all the same.
RejectAndGoOn(post, field) ==
    [post EXCEPT !.pc = "readData", !.status = 400, !.field = field,
                 !.item = [id |-> 0, name |-> << >>, category |-> << >>, price |-> 0]]

\* The handler's reaction to a body that fails validation on `field`:
\* an Error with status 400 is thrown and handed to next(err).
Reject(post, field) ==
    [post EXCEPT !.pc = "failed", !.status = 400, !.field = field,
                 !.error = JsError(400, <<field, "is required">>)]

\* The request arrives: validation, then the item is built and readData()
\* is awaited.
PostCall(w, body, budget) ==
    /\ posts[w].pc = "idle"
    /\ \A v \in Writers : v < w => posts[v].pc # "idle"
    /\ Issued < budget
    /\ LET bad == Validate(body)
           post == [posts[w] EXCEPT !.body = body]
       IN  IF bad # "" THEN
               posts' = [posts EXCEPT ![w] = Reject(post, bad)]
           ELSE
               posts' = [posts EXCEPT ![w] =
                   [post EXCEPT !.pc = "readData", !.item = NewItem(body, clock)]]
    /\ UNCHANGED <<clock, file, history, statsCache, watcher, calls, created, list, lookup, ui>>

\* readData() resolved: data.push(item), then writeData(data) is awaited.
PostReadDone(w) ==
    /\ posts[w].pc = "readData"
    /\ posts' = [posts EXCEPT ![w] =
          [@ EXCEPT !.pc = "writeData", !.data = Append(file.content, posts[w].item)]]
    /\ UNCHANGED <<clock, file, history, statsCache, watcher, calls, created, list, lookup, ui>>

\* What can make readData() throw: fs.readFile rejects, or JSON.parse throws.
ReadFailures == {"readFile", "parse"}

\* A catch of readData that drops the cause's message.
readDataErrorBare(cause) == JsError(0, <<"Failed to read data file", "">>)

\* The catch of readData: both causes are rethrown as a plain Error whose
\* message embeds the cause's message.
readDataError(cause) == JsError(0, <<"Failed to read data file", cause>>)

\* A handler that logs the store's error and answers 201 with the item.
OnStoreErrorSwallowed(post, err) ==
    [post EXCEPT !.pc = "done", !.status = 201, !.error = err, !.data = << >>]

\* The handler's catch on an error thrown by readData or writeData:
\* next(err), the response carries the error's status or 500.
OnStoreError(post, err) ==
    [post EXCEPT !.pc = "failed", !.status = ResponseStatus(err), !.error = err,
                 !.data = << >>]

\* readData() rejected (read or parse failure).
PostReadFail(w, cause) ==
    /\ posts[w].pc = "readData"
    /\ posts' = [posts EXCEPT ![w] =
          OnStoreError([@ EXCEPT !.rejected = cause], readDataError(cause))]
    /\ UNCHANGED <<clock, file, history, statsCache, watcher, calls, created, list, lookup, ui>>

\* writeData() resolved: the file holds the written array, 201 is sent.
PostWriteDone(w) ==
    /\ posts[w].pc = "writeData"
    /\ file' = [content |-> posts[w].data, mtime |-> clock, gen |-> file.gen + 1]
    /\ history' = Append(history, posts[w].data)
    /\ posts' = [posts EXCEPT ![w] =
          [@ EXCEPT !.pc = "done", !.status = 201, !.data = << >>]]
    /\ created' = TRUE
    /\ UNCHANGED <<clock, statsCache, watcher, calls, list, lookup, ui>>

\* The catch of writeData.
writeDataError(cause) == JsError(0, <<"Failed to write data file", cause>>)

\* writeData() rejected.
PostWriteFail(w) ==
    /\ posts[w].pc = "writeData"
    /\ posts' = [posts EXCEPT ![w] =
          OnStoreError([@ EXCEPT !.rejected = "writeFile"], writeDataError("writeFile"))]
    /\ UNCHANGED <<clock, file, history, statsCache, watcher, calls, created, list, lookup, ui>>

----------------------------------------------------------------------------
(* GET /api/items *)

Digits == <<"0", "1", "2", "3", "4", "5", "6", "7", "8", "9">>
IsDigit(ch) == \E i \in DOMAIN Digits : Digits[i] = ch
DigitValue(ch) == (CHOOSE i \in DOMAIN Digits : Digits[i] = ch) - 1

\* The decimal text of an integer, as a client writes it in the query string.
RECURSIVE DecimalDigits(_)
DecimalDigits(n) ==
    IF n < 10 THEN <<Digits[n + 1]>>
    ELSE Append(DecimalDigits(n \div 10), Digits[(n % 10) + 1])
Decimal(n) == IF n < 0 THEN <<"-">> \o DecimalDigits(-n) ELSE DecimalDigits(n)

RECURSIVE DigitPrefix(_)
DigitPrefix(s) ==
    IF s # << >> /\ IsDigit(Head(s)) THEN <<Head(s)>> \o DigitPrefix(Tail(s)) ELSE << >>

RECURSIVE DigitsValue(_)
DigitsValue(d) ==
    IF d = << >> THEN 0
    ELSE 10 * DigitsValue(SubSeq(d, 1, Len(d) - 1)) + DigitValue(d[Len(d)])

\* parseInt(v): leading white space is skipped, then an optional sign and the
\* longest run of decimal digits are read; NaN when there is no digit. A
\* number is converted to its text first, undefined to "undefined".
parseInt(v) ==
    IF v.t = "number" THEN Finite(v.n)
    ELSE IF v.t # "string" THEN NaN
    ELSE LET t == TrimStart(v.s)
             signed == t # << >> /\ Head(t) \in {"-", "+"}
             d == DigitPrefix(IF signed THEN Tail(t) ELSE t)
         IN  IF d = << >> THEN NaN
             ELSE IF signed /\ Head(t) = "-" THEN Finite(0 - DigitsValue(d))
             ELSE Finite(DigitsValue(d))

\* The page size used when parseInt(limit) is falsy.
DefaultPageSize == 10

\* parseInt(limit) || 10: NaN and 0 are falsy.
OrDefault(x) == IF x.nan \/ x.n = 0 THEN DefaultPageSize ELSE x.n

UpperCase ==
    <<"A", "B", "C", "D", "E", "F", "G", "H", "I", "J", "K", "L", "M",
      "N", "O", "P", "Q", "R", "S", "T", "U", "V", "W", "X", "Y", "Z">>
LowerCase ==
    <<"a", "b", "c", "d", "e", "f", "g", "h", "i", "j", "k", "l", "m",
      "n", "o", "p", "q", "r", "s", "t", "u", "v", "w", "x", "y", "z">>

\* String.prototype.toLowerCase
toLowerCase(s) ==
    [i \in DOMAIN s |->
        IF \E k \in DOMAIN UpperCase : UpperCase[k] = s[i]
        THEN LowerCase[CHOOSE k \in DOMAIN UpperCase : UpperCase[k] = s[i]]
        ELSE s[i]]

\* String.prototype.includes
includes(s, t) == \E i \in 0..(Len(s) - Len(t)) : SubSeq(s, i + 1, i + Len(t)) = t

\* A search filter that compares the records' texts as they are stored.
SearchCaseSensitive(data, q) ==
    IF Falsy(q) THEN data
    ELSE LET searchTerm == toLowerCase(q.s)
             Keep(item) ==
                 \/ includes(item.name, searchTerm)
                 \/ includes(item.category, searchTerm)
         IN  SelectSeq(data, Keep)

\* The search filter: applied when q is truthy.
Search(data, q) ==
    IF Falsy(q) THEN data
    ELSE LET searchTerm == toLowerCase(q.s)
             Keep(item) ==
                 \/ includes(toLowerCase(item.name), searchTerm)
                 \/ includes(toLowerCase(item.category), searchTerm)
         IN  SelectSeq(data, Keep)

\* A page count that leaves a last, partly filled page out.
FloorDiv(a, b) == IF b > 0 THEN a \div b ELSE 0 - (a \div (0 - b))

\* Math.ceil(a / b) for a >= 0 and b # 0.
CeilDiv(a, b) == IF b > 0 THEN (a + b - 1) \div b ELSE 0 - (a \div (0 - b))

\* A start or end argument of Array.prototype.slice: NaN counts as 0, a
\* negative index counts from the end, and the result is clamped to 0..len.
RelativeIndex(x, len) ==
    LET k == IF x.nan THEN 0 ELSE x.n
    IN  IF k < 0 THEN Max(len + k, 0) ELSE Min(k, len)

\* Array.prototype.slice(start, end)
slice(arr, start, end) ==
    SubSeq(arr, RelativeIndex(start, Len(arr)) + 1, RelativeIndex(end, Len(arr)))

\* The body of the 200 response for the file content `data` and the query.
ListResponse(data, q, limit, page) ==
    LET results == Search(data, q)
        pageSize == OrDefault(parseInt(limit))
        pageNumber == parseInt(IF page.t = "undefined" THEN Num(1) ELSE page)
        totalItems == Len(results)
        totalPages == CeilDiv(totalItems, pageSize)
        startIndex ==
            IF pageNumber.nan THEN NaN ELSE Finite((pageNumber.n - 1) * pageSize)
        endIndex ==
            IF startIndex.nan THEN NaN ELSE Finite(startIndex.n + pageSize)
    IN  [items |-> slice(results, startIndex, endIndex),
         pagination |->
            [page |-> pageNumber, pageSize |-> pageSize,
             totalItems |-> totalItems, totalPages |-> totalPages,
             hasNextPage |-> ~pageNumber.nan /\ pageNumber.n < totalPages,
             hasPrevPage |-> ~pageNumber.nan /\ pageNumber.n > 1]]

\* The request arrives with its query string; readData() is awaited.
ListCall(q, limit, page) ==
    /\ list.pc = "idle"
    /\ list' = [list EXCEPT !.pc = "readData", !.q = q, !.limit = limit, !.page = page]
    /\ UNCHANGED <<clock, file, history, statsCache, watcher, calls, posts, created, lookup, ui>>

\* readData() resolved: filter, paginate, res.json.
ListReadDone ==
    /\ list.pc = "readData"
    /\ LET body == ListResponse(file.content, list.q, list.limit, list.page)
       IN  list' = [list EXCEPT !.pc = "done", !.status = 200,
                                !.items = body.items, !.pagination = body.pagination]
    /\ UNCHANGED <<clock, file, history, statsCache, watcher, calls, posts, created, lookup, ui>>

\* readData() rejected: next(err).
ListReadFail(cause) ==
    /\ list.pc = "readData"
    /\ list' = [list EXCEPT !.pc = "failed", !.error = readDataError(cause),
                            !.status = ResponseStatus(readDataError(cause))]
    /\ UNCHANGED <<clock, file, history, statsCache, watcher, calls, posts, created, lookup, ui>>

\* The client asks for the page after the one it received, with the same
\* search term and page size, and keeps the pages it has received so far.
NextPageCall ==
    /\ list.pc = "done"
    /\ ~list.pagination.page.nan
    /\ list.pagination.page.n < list.pagination.totalPages
    /\ list' = [list EXCEPT !.pc = "readData",
                            !.page = Str(Decimal(list.pagination.page.n + 1)),
                            !.seen = Append(@, list.items)]
    /\ UNCHANGED <<clock, file, history, statsCache, watcher, calls, posts, created, lookup, ui>>

----------------------------------------------------------------------------
(* The Items component *)

\* The debounce delay of handleSearch, in milliseconds and in ticks.
DebounceMs == 300
DebounceTicks == DebounceMs \div TickMs

\* `loading` of the data context, as the component reads it.
Loading == ui.loading

\* A loading state that counts the requests in flight.
SettleCounting(state, r) ==
    [state EXCEPT !.loading =
        \E o \in DOMAIN state.requests : o # r /\ state.requests[o].pc = "pending"]

\* A fetchItems that applies a response only when no later request was issued.
ApplyLatestOnly(state, r) ==
    IF r = Len(state.requests)
    THEN [state EXCEPT !.loading = FALSE,
                       !.searchQuery = state.requests[r].query,
                       !.page = state.requests[r].page,
                       !.held = r]
    ELSE [state EXCEPT !.loading = FALSE]

\* fetchItems up to its await: setLoading(true), fetch(url, {signal}).
Begin(state, request) ==
    [state EXCEPT !.loading = TRUE, !.requests = Append(@, request)]

\* fetchItems after a response that is ok: setItems, setPagination,
\* setSearchQuery(q), setLoading(false).
Apply(state, r) ==
    [state EXCEPT !.loading = FALSE,
                  !.searchQuery = state.requests[r].query,
                  !.page = state.requests[r].page,
                  !.held = r]

\* The catch of fetchItems: setLoading(false).
Settle(state, r) == [state EXCEPT !.loading = FALSE]

\* The search input and the page buttons are rendered and enabled.
Interactive == ui.mounted /\ ~ui.error /\ ~Loading

\* A handleSearch that arms a new timer without clearing the previous one.
ArmWithoutClear(timers, searchTimeout, timer) == timers \cup {timer}

\* if (searchTimeout) clearTimeout(searchTimeout); setTimeout(..., 300)
Arm(timers, searchTimeout, timer) ==
    {t \in timers : t.id # searchTimeout} \cup {timer}

\* The browser clock advances; a timer that is due fires first.
UiTick ==
    /\ ui.now < MaxUiClock
    /\ \A t \in ui.timers : t.due > ui.now
    /\ ui' = [ui EXCEPT !.now = @ + 1]
    /\ UNCHANGED <<clock, file, history, statsCache, watcher, calls, posts, created, list, lookup>>

\* The search input changes to `query`: handleSearch(query), followed by the
\* render that publishes the new searchTimeout.
handleSearch(query) ==
    /\ Interactive
    /\ ui.events < MaxUiEvents
    /\ LET id == ui.lastTimer + 1
           timer == [id |-> id, due |-> ui.now + DebounceTicks, query |-> query]
       IN  ui' = [ui EXCEPT !.localSearchQuery = query,
                            !.timers = Arm(ui.timers, ui.searchTimeout, timer),
                            !.searchTimeout = id,
                            !.lastTimer = id,
                            !.changes = Append(@, [at |-> ui.now, query |-> query]),
                            !.events = @ + 1]
    /\ UNCHANGED <<clock, file, history, statsCache, watcher, calls, posts, created, list, lookup>>

\* A debounce timer fires: setError(null), then searchItems(query, signal)
\* with the signal of a fresh AbortController.
SearchTimerFires ==
    \E t \in ui.timers :
        /\ t.due <= ui.now
        /\ ui' = [Begin(ui, UiRequest("search", ui.now, t.query))
                     EXCEPT !.timers = @ \ {t},
                            !.error = FALSE,
                            !.lateIssue = @ \/ ~ui.mounted,
                            !.lateUpdate = @ \/ ~ui.mounted]
        /\ UNCHANGED <<clock, file, history, statsCache, watcher, calls, posts, created, list, lookup>>

\* The Next button is clicked: setError(null), then loadPage(page + 1, signal)
\* with the signal of a fresh AbortController; loadPage passes the context's
\* searchQuery.
handlePageChange ==
    /\ Interactive
    /\ ui.events < MaxUiEvents
    /\ LET request ==
            [UiRequest("page", ui.now, ui.searchQuery) EXCEPT !.page = ui.page + 1]
       IN  ui' = [Begin(ui, request) EXCEPT !.error = FALSE, !.events = @ + 1]
    /\ UNCHANGED <<clock, file, history, statsCache, watcher, calls, posts, created, list, lookup>>

\* fetchItems resolved: the component's try block ends.
UiResolve(r) ==
    /\ ui.requests[r].pc = "pending"
    /\ ui' = [Apply(ui, r) EXCEPT !.requests[r].pc = "resolved"]
    /\ UNCHANGED <<clock, file, history, statsCache, watcher, calls, posts, created, list, lookup>>

\* fetchItems rejected with an error that is not an AbortError: the catch of
\* the initial load sets the error only while mounted, the catches of the
\* search and of the page change set it always.
UiReject(r) ==
    /\ ui.requests[r].pc = "pending"
    /\ LET guarded == ui.requests[r].kind = "initial"
           sets == ~guarded \/ ui.mounted
       IN  ui' = [Settle(ui, r) EXCEPT !.requests[r].pc = "rejected",
                            !.error = @ \/ sets,
                            !.lateUpdate = @ \/ (sets /\ ~ui.mounted)]
    /\ UNCHANGED <<clock, file, history, statsCache, watcher, calls, posts, created, list, lookup>>

\* The component unmounts: the cleanup of the mount effect clears isMounted
\* and aborts the controller of the initial load; a pending initial fetch
\* rejects with an AbortError, which fetchItems catches and swallows.
Unmount ==
    /\ ui.mounted
    /\ ui' = [(IF ui.requests[1].pc = "pending" THEN Settle(ui, 1) ELSE ui) EXCEPT
          !.mounted = FALSE,
          !.requests = [r \in DOMAIN @ |->
              IF @[r].kind = "initial"
              THEN [@[r] EXCEPT !.aborted = TRUE,
                                !.pc = IF @ = "pending" THEN "aborted" ELSE @]
              ELSE @[r]]]
    /\ UNCHANGED <<clock, file, history, statsCache, watcher, calls, posts, created, list, lookup>>

----------------------------------------------------------------------------
(* GET /api/items/:id *)

\* data.find(i => i.id === wanted): the first record with that id, Null
\* (undefined) when there is none; NaN equals nothing.
find(data, wanted) ==
    LET hits == {i \in DOMAIN data : ~wanted.nan /\ data[i].id = wanted.n}
    IN  IF hits = {} THEN Null
        ELSE data[CHOOSE i \in hits : \A j \in hits : i <= j]

\* The request arrives with its :id parameter; readData() is awaited.
GetCall(id) ==
    /\ lookup.pc = "idle"
    /\ lookup' = [lookup EXCEPT !.pc = "readData", !.id = id]
    /\ UNCHANGED <<clock, file, history, statsCache, watcher, calls, posts, created, list, ui>>

\* readData() resolved: the record is sent, or an Error with status 404 is
\* thrown and handed to next(err).
GetReadDone ==
    /\ lookup.pc = "readData"
    /\ LET item == find(file.content, parseInt(lookup.id))
           err == JsError(404, <<"Item not found">>)
       IN  IF item = Null
           THEN lookup' = [lookup EXCEPT !.pc = "failed", !.error = err,
                                         !.status = ResponseStatus(err)]
           ELSE lookup' = [lookup EXCEPT !.pc = "done", !.status = 200, !.item = item]
    /\ UNCHANGED <<clock, file, history, statsCache, watcher, calls, posts, created, list, ui>>

\* readData() rejected: next(err).
GetReadFail(cause) ==
    /\ lookup.pc = "readData"
    /\ lookup' = [lookup EXCEPT !.pc = "failed", !.error = readDataError(cause),
                                !.rejected = cause,
                                !.status = ResponseStatus(readDataError(cause))]
    /\ UNCHANGED <<clock, file, history, statsCache, watcher, calls, posts, created, list, ui>>

----------------------------------------------------------------------------
Next ==
    \/ Tick
    \/ \E c \in Calls : GetStatsCall(c, MaxRequests)
    \/ \E c \in Calls : StatDone(c)
    \/ \E c \in Calls : StatFail(c)
    \/ \E c \in Calls : WaitElapsed(c)
    \/ \E c \in Calls : ReadDone(c)
    \/ \E c \in Calls : ReadFail(c)
    \/ WatcherPoll
    \/ \E w \in Writers, body \in Bodies : PostCall(w, body, MaxRequests)
    \/ \E w \in Writers : PostReadDone(w)
    \/ \E w \in Writers, cause \in ReadFailures : PostReadFail(w, cause)
    \/ \E w \in Writers : PostWriteDone(w)
    \/ \E w \in Writers : PostWriteFail(w)

Spec == Init /\ [][Next]_vars

\* The same machine under a workload of at most SmallRequests requests.
NextSmall ==
    \/ Tick
    \/ \E c \in Calls : GetStatsCall(c, SmallRequests)
    \/ \E c \in Calls : StatDone(c)
    \/ \E c \in Calls : StatFail(c)
    \/ \E c \in Calls : WaitElapsed(c)
    \/ \E c \in Calls : ReadDone(c)
    \/ \E c \in Calls : ReadFail(c)
    \/ WatcherPoll
    \/ \E w \in Writers, body \in Bodies : PostCall(w, body, SmallRequests)
    \/ \E w \in Writers : PostReadDone(w)
    \/ \E w \in Writers, cause \in ReadFailures : PostReadFail(w, cause)
    \/ \E w \in Writers : PostWriteDone(w)
    \/ \E w \in Writers : PostWriteFail(w)

SpecSmall == Init /\ [][NextSmall]_vars

\* The workload of SpecSmall under the assumption that every store operation
\* of getStats() completes (resolves or rejects) and every 100 ms timer fires.
NextLive ==
    \/ Tick
    \/ \E c \in Calls : GetStatsCall(c, LiveRequests)
    \/ \E c \in Calls : StatDone(c)
    \/ \E c \in Calls : StatFail(c)
    \/ \E c \in Calls : WaitElapsed(c)
    \/ \E c \in Calls : ReadDone(c)
    \/ \E c \in Calls : ReadFail(c)
    \/ WatcherPoll
    \/ \E w \in Writers, body \in Bodies : PostCall(w, body, LiveRequests)
    \/ \E w \in Writers : PostReadDone(w)
    \/ \E w \in Writers, cause \in ReadFailures : PostReadFail(w, cause)
    \/ \E w \in Writers : PostWriteDone(w)
    \/ \E w \in Writers : PostWriteFail(w)

StoreOperationsComplete ==
    \A c \in Calls :
        /\ WF_vars(StatDone(c) \/ StatFail(c))
        /\ WF_vars(ReadDone(c) \/ ReadFail(c))
        /\ WF_vars(WaitElapsed(c))

SpecLive == Init /\ [][NextLive]_vars /\ StoreOperationsComplete

\* A body whose texts carry surrounding white space and whose price is zero.
BodyB ==
    [name |-> Str(<<" ", "b", " ">>), category |-> Str(<<"y", " ">>), price |-> Num(0)]
PostBodies == {BodyA, BodyB, BodyBad}

\* POST /api/items alone: concurrent requests against the data file.
NextPost ==
    \/ Tick
    \/ \E w \in Writers, body \in PostBodies : PostCall(w, body, PostRequests)
    \/ \E w \in Writers : PostReadDone(w)
    \/ \E w \in Writers, cause \in ReadFailures : PostReadFail(w, cause)
    \/ \E w \in Writers : PostWriteDone(w)
    \/ \E w \in Writers : PostWriteFail(w)

SpecPost == Init /\ [][NextPost]_vars

\* Request bodies as express.json() can deliver them: each field absent, null,
\* a string (empty, blank, padded) or a number (negative, zero, positive).
NameValues ==
    {Undefined, JsNull, Num(7), Str(<< >>), Str(<<" ", " ">>), Str(<<" ", "a", " ">>)}
CategoryValues == {Undefined, Num(0), Str(<<" ">>), Str(<<"x">>)}
PriceValues == {Undefined, JsNull, Str(<<"9">>), Num(-1), Num(0), Num(3)}
WideBodies ==
    {[name |-> n, category |-> c, price |-> p] :
        n \in NameValues, c \in CategoryValues, p \in PriceValues}

\* One POST /api/items with any of the bodies above.
NextValidate ==
    \/ Tick
    \/ \E w \in Writers, body \in WideBodies : PostCall(w, body, ValidateRequests)
    \/ \E w \in Writers : PostReadDone(w)
    \/ \E w \in Writers, cause \in ReadFailures : PostReadFail(w, cause)
    \/ \E w \in Writers : PostWriteDone(w)
    \/ \E w \in Writers : PostWriteFail(w)

SpecValidate == Init /\ [][NextValidate]_vars

\* The records of the listing workload: the three records of the test data,
\* repeated with fresh ids.
CatalogueNames == << <<"L", "a", "p">>, <<"H", "e", "a", "d">>, <<"C", "h", "a", "i", "r">> >>
CatalogueCategories == << <<"E", "l">>, <<"E", "l">>, <<"F", "u", "r">> >>
CatalogueItem(i) ==
    [id |-> i, name |-> CatalogueNames[((i - 1) % 3) + 1],
     category |-> CatalogueCategories[((i - 1) % 3) + 1], price |-> i]
ListContents == {[i \in 1..k |-> CatalogueItem(i)] : k \in 0..MaxItems}

\* Query parameters as Express delivers them: absent or a string.
NotANumber == Str(<<"a", "b", "c">>)
PageInputs == {Undefined, NotANumber} \cup {Str(Decimal(n)) : n \in (0 - MaxPage)..MaxPage}
LimitInputs == {Undefined, NotANumber} \cup {Str(Decimal(n)) : n \in (0 - MaxLimit)..MaxLimit}
QInputs == {Undefined, Str(<<"e", "l">>), Str(<<"C", "H">>), Str(<<"x">>)}

InitList ==
    /\ clock = 1
    /\ \E c \in ListContents :
          /\ file = [content |-> c, mtime |-> 0, gen |-> 0]
          /\ history = <<c>>
    /\ statsCache = [data |-> Null, lastModified |-> NoMarker, isCalculating |-> FALSE]
    /\ watcher = [mtime |-> 0, gen |-> 0]
    /\ calls = [c \in Calls |-> IdleCall]
    /\ posts = [w \in Writers |-> IdlePost]
    /\ created = FALSE
    /\ list = IdleList
    /\ lookup = IdleLookup
    /\ ui = MountedItems

\* One GET /api/items over any of the files and queries above.
NextList ==
    \/ \E q \in QInputs, limit \in LimitInputs, page \in PageInputs :
          ListCall(q, limit, page)
    \/ ListReadDone
    \/ \E cause \in ReadFailures : ListReadFail(cause)

SpecList == InitList /\ [][NextList]_vars

\* A client that reads a listing from its first page to its last.
NextPages ==
    \/ \E q \in QInputs, limit \in LimitInputs : ListCall(q, limit, Str(Decimal(1)))
    \/ ListReadDone
    \/ \E cause \in ReadFailures : ListReadFail(cause)
    \/ NextPageCall

SpecPages == InitList /\ [][NextPages]_vars

\* :id parameters: the decimal text of an integer, and texts that are not the
\* decimal text of any integer.
IdInputs ==
    {Str(Decimal(n)) : n \in (0 - 1)..(MaxItems + 1)}
        \cup {NotANumber, Str(<<"1", "a", "b", "c">>), Str(<<"2", ".", "5">>)}

\* One GET /api/items/:id over any of the files and parameters above.
NextItem ==
    \/ \E id \in IdInputs : GetCall(id)
    \/ GetReadDone
    \/ \E cause \in ReadFailures : GetReadFail(cause)

SpecItem == InitList /\ [][NextItem]_vars

\* Records as an externally written file can hold them: the category a text,
\* the text "Unknown" or missing, the price a number or missing.
UnknownText == <<"U", "n", "k", "n", "o", "w", "n">>
StatRecords ==
    {[id |-> 0, name |-> <<"n">>, category |-> c, price |-> p] :
        c \in {<<"x">>, UnknownText, << >>}, p \in {NoPrice} \cup 0..MaxPrice}
\* Files of TieItems records of which k cost 1 and the others 0.
TieContents ==
    {[i \in 1..TieItems |->
        [id |-> i, name |-> <<"n">>, category |-> <<"x">>,
         price |-> IF i <= k THEN 1 ELSE 0]] : k \in 0..TieItems}
StatContents ==
    UNION {[1..n -> StatRecords] : n \in 0..MaxStatItems} \cup TieContents

InitStats ==
    /\ clock = 1
    /\ \E c \in StatContents :
          /\ file = [content |-> c, mtime |-> 0, gen |-> 0]
          /\ history = <<c>>
    /\ statsCache = [data |-> Null, lastModified |-> NoMarker, isCalculating |-> FALSE]
    /\ watcher = [mtime |-> 0, gen |-> 0]
    /\ calls = [c \in Calls |-> IdleCall]
    /\ posts = [w \in Writers |-> IdlePost]
    /\ created = FALSE
    /\ list = IdleList
    /\ lookup = IdleLookup
    /\ ui = MountedItems

\* getStats() over any of the files above.
NextStats ==
    \/ \E c \in Calls : GetStatsCall(c, StatsRequests)
    \/ \E c \in Calls : StatDone(c)
    \/ \E c \in Calls : StatFail(c)
    \/ \E c \in Calls : ReadDone(c)
    \/ \E c \in Calls : ReadFail(c)

SpecStats == InitStats /\ [][NextStats]_vars

\* The texts typed into the search input.
UiQueries == {"a", "b"}

\* The Items component alone, from mount to after unmount.
NextUi ==
    \/ UiTick
    \/ \E query \in UiQueries : handleSearch(query)
    \/ SearchTimerFires
    \/ handlePageChange
    \/ \E r \in DOMAIN ui.requests : UiResolve(r)
    \/ \E r \in DOMAIN ui.requests : UiReject(r)
    \/ Unmount

SpecUi == Init /\ [][NextUi]_vars

----------------------------------------------------------------------------
(* Properties of the statistics cache *)

Computing == {c \in Calls : calls[c].pc = "read"}
Returned == {c \in Calls : calls[c].pc = "done"}
Started == {c \in Calls : calls[c].pc # "idle"}

\* The content the file held at generation g.
ContentAt(g) == history[g + 1]

\* C1: in every reachable state at most one getStats() invocation is inside
\* the read-and-compute section (between setting isCalculating and the end
\* of the calculation), whatever the interleaving and whichever calls fail.
C1_AtMostOneComputing == Cardinality(Computing) <= 1

\* C2: when at least two getStats() invocations are issued while the cache is
\* empty, each before any of them has returned, and the file is not written
\* from the first issue to the last return, then once all of them have
\* returned exactly one of them has read the file and calculated, and all
\* returned the same statistics.
C2_ConcurrentCallsCollapse ==
    ( /\ Cardinality(Started) >= 2
      /\ \A c \in Started :
            /\ calls[c].pc = "done"
            /\ calls[c].startEmpty
            /\ calls[c].prior = {}
      /\ \A c, d \in Started : calls[c].startGen = calls[d].endGen )
    => /\ Cardinality({c \in Started : calls[c].how = "computed"}) = 1
       /\ \A c, d \in Started : calls[c].result = calls[d].result

\* C3: statistics returned as a cache hit are the aggregate of the record
\* collection as it stands when the call observes the marker.
C3_HitIsAggregateAtMarker ==
    \A c \in Calls :
        calls[c].how = "hit" =>
            calls[c].result = calculateStats(ContentAt(calls[c].endGen))

\* C4: the first getStats() issued after a POST succeeded returns the
\* statistics of a collection the file held at or after that issue, that is
\* of a collection with the new record in it.
C4_NextStatsIncludeNewItem ==
    \A c \in Calls :
        (calls[c].pc = "done" /\ calls[c].afterCreate) =>
            \E g \in calls[c].startGen..calls[c].endGen :
                calls[c].result = calculateStats(ContentAt(g))

\* C5: of two getStats() invocations, the second issued after the first
\* returned, with no write of the file from the first issue to the second
\* return, the second returns the same statistics as the first and returns
\* them as a cache hit (it performs no full read).
C5_SecondCallIsHit ==
    \A c, d \in Calls :
        ( /\ c \in calls[d].prior
          /\ calls[d].pc = "done"
          /\ calls[c].startGen = calls[d].endGen )
        => /\ calls[d].result = calls[c].result
           /\ calls[d].how = "hit"

\* C6: the full read-and-compute pass completes successfully at most once
\* for each change marker value.
C6_OnceComputedPerMarker ==
    \A c, d \in Calls :
        ( /\ c # d
          /\ calls[c].how = "computed"
          /\ calls[d].how = "computed" )
        => calls[c].currentModTime # calls[d].currentModTime

\* C7: a poll that observes a marker different from the one observed by the
\* previous poll empties the cache entry, and a poll that observes the same
\* marker leaves the cache entry unchanged.
C7_PollResetsOnlyOnNewMarker ==
    [][ watcher' # watcher =>
            IF file.mtime # watcher.mtime
            THEN /\ statsCache'.data = Null
                 /\ statsCache'.lastModified = NoMarker
            ELSE statsCache' = statsCache ]_vars

\* C8: when the full read (or the parse) fails, the call fails with that
\* failure and returns nothing, the in-flight flag is cleared, and the
\* cached statistics and their marker are left as they were.
C8_ReadFailureKeepsEntry ==
    [][ \A c \in Calls :
            (calls[c].rejected = "none" /\ calls'[c].rejected = "read") =>
                /\ calls'[c].pc = "failed"
                /\ calls'[c].result = Null
                /\ calls'[c].error # << >>
                /\ calls'[c].error[Len(calls'[c].error)] = "read"
                /\ ~statsCache'.isCalculating
                /\ statsCache'.data = statsCache.data
                /\ statsCache'.lastModified = statsCache.lastModified ]_vars

\* A read has failed while the cache held statistics computed by a call
\* that had returned before the failing call was issued.
C8_Witness ==
    \E c \in Calls :
        /\ calls[c].rejected = "read"
        /\ statsCache.data # Null
        /\ \A d \in Started \ {c} : d \in calls[c].prior

\* C9: a call whose marker check failed has failed with the accessor's
\* failure and has returned no statistics, whatever the cache holds.
C9_MarkerFailureSurfaces ==
    \A c \in Calls :
        calls[c].rejected = "stat" =>
            /\ calls[c].pc = "failed"
            /\ calls[c].result = Null
            /\ calls[c].how = "none"
            /\ calls[c].error # << >>
            /\ calls[c].error[Len(calls[c].error)] = "stat"

\* The marker check of a call has failed while the cache held statistics
\* computed by a call that had returned before the failing call was issued.
C9_Witness ==
    \E c \in Calls :
        /\ calls[c].rejected = "stat"
        /\ statsCache.data # Null
        /\ \A d \in Started \ {c} : d \in calls[c].prior

\* C10: a caller waits for an in-flight computation and re-checks at most
\* RetryCap times.
C10_WaitLoopBounded == \A c \in Calls : calls[c].waits <= RetryCap

\* C11: in every reachable state the cache entry holds statistics exactly when
\* it holds the marker they are valid for; an invalidation that arrives while
\* a computation is in flight does not leave one without the other.
C11_EntryNeverHalfWritten ==
    (statsCache.data = Null) <=> (statsCache.lastModified = NoMarker)

\* A computation is reading the file, the entry is empty, and the watcher has
\* polled a write made after that computation's call began.
C11_Witness ==
    \E c \in Calls :
        /\ calls[c].pc = "read"
        /\ statsCache.data = Null
        /\ watcher.gen > calls[c].startGen

----------------------------------------------------------------------------
(* Properties of POST /api/items *)

\* The requests that were answered 201.
Succeeded == {w \in Writers : posts[w].pc = "done"}

\* C12: concurrent createItem calls are serialized: whatever the interleaving,
\* once k calls have succeeded the store holds the records it held at the
\* start and the k new ones.
C12_AllAppendsKept ==
    Len(file.content) = Len(ContentAt(0)) + Cardinality(Succeeded)

\* C13: a createItem call rejected by validation performs no read-modify-write
\* on the store: the step that rejects it leaves the content and the marker of
\* the file as they were, and the rejected request is finished, so it never
\* goes on to read or write.
C13_RejectedTouchesNothing ==
    [][\A w \in Writers :
          posts'[w].status = 400 =>
              /\ posts'[w].pc = "failed"
              /\ posts'[w].data = << >>
              /\ posts[w].status # 400 => file' = file /\ history' = history]_vars

\* A request was rejected by validation after another request had written.
C13_Witness ==
    \E w \in Writers :
        /\ posts[w].status = 400
        /\ posts[w].rejected = "none"
        /\ file.gen > 0

\* The rule of the specification: a text is acceptable when it is a string
\* with a character that is not white space; a price when it is a number that
\* is not negative.
GoodText(v) == v.t = "string" /\ \E i \in DOMAIN v.s : v.s[i] # " "
GoodPrice(v) == v.t = "number" /\ v.n >= 0
FirstOffending(body) ==
    CHOOSE f \in {"name", "category", "price", ""} :
        \/ f = "name" /\ ~GoodText(body.name)
        \/ f = "category" /\ GoodText(body.name) /\ ~GoodText(body.category)
        \/ f = "price" /\ GoodText(body.name) /\ GoodText(body.category)
                       /\ ~GoodPrice(body.price)
        \/ f = "" /\ GoodText(body.name) /\ GoodText(body.category)
                  /\ GoodPrice(body.price)

\* C14: createItem passes validation exactly when name and category are
\* strings that are not empty after trimming and price is a number that is at
\* least zero (zero allowed); otherwise it fails with a validation error that
\* names the first offending field in the order name, category, price.
C14_ValidationRule ==
    \A w \in Writers :
        posts[w].pc # "idle" =>
            LET f == FirstOffending(posts[w].body)
            IN  /\ (posts[w].status = 400) <=> (f # "")
                /\ posts[w].status = 400 =>
                       /\ posts[w].field = f
                       /\ posts[w].error.status = 400
                       /\ posts[w].error.message[1] = f
                /\ f = "" /\ posts[w].pc = "done" =>
                       /\ posts[w].status = 201
                       /\ posts[w].item.price = posts[w].body.price.n

\* A body with price zero was accepted and its item created.
C14_Witness ==
    \E w \in Writers :
        /\ posts[w].pc = "done"
        /\ posts[w].body.price = Num(0)

\* C15: after any sequence of successful createItem calls the records of the
\* store have pairwise distinct ids, two items created within the same clock
\* tick included.
C15_IdsDistinct ==
    \A i, j \in DOMAIN file.content :
        i # j => file.content[i].id # file.content[j].id

\* C16: a successful createItem leaves every record of the store unchanged and
\* in place and adds exactly one record, with the trimmed name, the trimmed
\* category and the given price, as the last element; the item returned is
\* that record.
C16_AppendsOneRecordLast ==
    [][\A w \in Writers :
          posts[w].pc # "done" /\ posts'[w].pc = "done" =>
              /\ file'.content = Append(file.content, posts'[w].item)
              /\ posts'[w].item.name = Trim(posts'[w].body.name.s)
              /\ posts'[w].item.category = Trim(posts'[w].body.category.s)
              /\ posts'[w].item.price = posts'[w].body.price.n]_vars

\* C17: a store failure in createItem gives no partial success. When reading
\* or parsing fails the request ends there, answered 500, with nothing written
\* by it; when writing fails the request is answered 500 and never 201.
C17_NoPartialSuccess ==
    [][\A w \in Writers :
          /\ posts'[w].rejected # "none" =>
                 /\ posts'[w].pc = "failed"
                 /\ posts'[w].status = 500
                 /\ posts'[w].error # NoError
          /\ posts[w].rejected = "none" /\ posts'[w].rejected \in ReadFailures =>
                 /\ file' = file
                 /\ history' = history
                 /\ posts'[w].data = << >>
          /\ posts[w].pc = "failed" => posts'[w] = posts[w]]_vars

\* One request failed on its write and another on its read.
C17_Witness ==
    \E w, v \in Writers :
        /\ posts[w].rejected = "writeFile"
        /\ posts[w].status = 500
        /\ posts[v].rejected \in ReadFailures
        /\ posts[v].status = 500

\* What a caller can dispatch on without reading free text: the error's class,
\* its status property and the fixed head of its message.
Kind(err) == [name |-> err.name, status |-> err.status, label |-> err.message[1]]

\* The requests whose readData() failed.
ReadFailed == {w \in Writers : posts[w].rejected \in ReadFailures}

----------------------------------------------------------------------------
(* Properties of GET /api/items *)

\* The request was answered 200.
Listed == list.pc = "done" /\ list.status = 200

\* C19: for every page number outside 1..totalPages (zero, negative or beyond
\* the last page) listItems returns an empty slice and no error. Stated for
\* requests whose effective page size is positive.
C19_OutOfRangePageIsEmpty ==
    Listed /\ ~list.pagination.page.nan /\ list.pagination.pageSize > 0 =>
        (list.pagination.page.n \notin 1..list.pagination.totalPages
            => list.items = << >>)

\* C20: the effective page size of listItems is 10 whenever the requested page
\* size is absent or invalid (not a number, zero or negative) and the
\* requested value otherwise; the effective page is 1 when no page is given.
C20_PageSizeAndPageDefaults ==
    Listed =>
        /\ list.limit \in {Undefined, NotANumber} =>
               list.pagination.pageSize = DefaultPageSize
        /\ \A n \in (0 - MaxLimit)..MaxLimit :
               list.limit = Str(Decimal(n)) =>
                   list.pagination.pageSize = IF n <= 0 THEN DefaultPageSize ELSE n
        /\ list.page = Undefined => list.pagination.page = Finite(1)

\* The filtered list of the answered request and the place where the returned
\* slice ends in it.
Filtered == Search(file.content, list.q)
SliceEnd ==
    RelativeIndex(Finite(list.pagination.page.n * list.pagination.pageSize),
                  Len(Filtered))

\* C21: the PageInfo of listItems reports totalItems as the number of records
\* after search and before pagination, totalPages as ceil(totalItems/pageSize),
\* hasNextPage true exactly when records remain after the returned slice, and
\* hasPrevPage true exactly when page > 1. Stated for requests whose page is a
\* number and whose effective page size is positive.
C21_PageInfo ==
    Listed /\ ~list.pagination.page.nan /\ list.pagination.pageSize > 0 =>
        LET info == list.pagination
        IN  /\ info.totalItems = Len(Filtered)
            /\ info.totalPages * info.pageSize >= info.totalItems
            /\ (info.totalPages - 1) * info.pageSize < info.totalItems
            /\ info.hasNextPage <=> (SliceEnd < Len(Filtered))
            /\ info.hasPrevPage <=> (info.page.n > 1)

\* Two characters are the same letter up to case.
SameLetter(a, b) ==
    \/ a = b
    \/ \E k \in DOMAIN UpperCase :
          {a, b} = {UpperCase[k], LowerCase[k]}

\* text contains term as a substring, ignoring case.
ContainsIgnoringCase(text, term) ==
    \E off \in 0..(Len(text) - Len(term)) :
        \A j \in 1..Len(term) : SameLetter(text[off + j], term[j])

\* The records of the file that match the search term, in file order.
Matching(term) ==
    LET Hit(item) ==
            \/ ContainsIgnoringCase(item.name, term)
            \/ ContainsIgnoringCase(item.category, term)
    IN  SelectSeq(file.content, Hit)

\* C22: with a non-empty search term listItems keeps a record if and only if
\* its name or its category contains the term as a case-insensitive substring,
\* and the filter is applied before pagination: the count is the count of
\* matching records and page p holds the p-th run of pageSize matching records.
C22_SearchBeforePagination ==
    Listed /\ list.q.t = "string" /\ list.q.s # << >> =>
        LET info == list.pagination
            hits == Matching(list.q.s)
        IN  /\ info.totalItems = Len(hits)
            /\ ~info.page.nan /\ info.page.n >= 1 /\ info.pageSize >= 1 =>
                   list.items =
                       SubSeq(hits, (info.page.n - 1) * info.pageSize + 1,
                              Min(info.page.n * info.pageSize, Len(hits)))

\* A search in another case than the stored text matched some records but not
\* all, and the second page of the matches was returned.
C22_Witness ==
    /\ Listed
    /\ list.q = Str(<<"e", "l">>)
    /\ list.pagination.pageSize = 1
    /\ list.pagination.page = Finite(2)
    /\ Len(list.items) = 1
    /\ list.pagination.totalItems < Len(file.content)

----------------------------------------------------------------------------
(* Properties of GET /api/items/:id *)

\* The positions of the records whose id, written in decimal, is the
\* requested identifier.
ExactMatches == {i \in DOMAIN file.content : Decimal(file.content[i].id) = lookup.id.s}

\* C23: getItem returns the record whose id equals the requested identifier
\* exactly, and fails with NotFound whenever no record has that identifier,
\* every identifier that is not a number included.
C23_ExactIdOrNotFound ==
    lookup.pc \in {"done", "failed"} /\ lookup.rejected = "none" =>
        IF ExactMatches = {}
        THEN lookup.status = 404 /\ lookup.error.message = <<"Item not found">>
        ELSE lookup.status = 200 /\ \E i \in ExactMatches : lookup.item = file.content[i]

----------------------------------------------------------------------------
(* Properties of calculateStats *)

\* The calls that computed their statistics from the file.
Computed == {c \in Calls : calls[c].pc = "done" /\ calls[c].how = "computed"}

\* C24: getStatistics over an empty record collection returns total 0,
\* averagePrice 0, an empty categories mapping and priceRange min 0 / max 0;
\* and whenever total is 0 all numeric fields are 0 and categories is empty.
C24_EmptySetIsAllZero ==
    \A c \in Computed :
        LET stats == calls[c].result
        IN  /\ file.content = << >> => stats.total = 0
            /\ stats.total = 0 =>
                   /\ stats.averagePrice = 0
                   /\ DOMAIN stats.categories = {}
                   /\ stats.priceRange.min = 0
                   /\ stats.priceRange.max = 0

\* The statistics of an empty file were computed.
C24_Witness ==
    \E c \in Computed : file.content = << >> /\ calls[c].result.total = 0

\* The reference aggregation over the records of the file.
RefPrice(i) == IF file.content[i].price = NoPrice THEN 0 ELSE file.content[i].price
RefSum == SeqSum([i \in DOMAIN file.content |-> RefPrice(i)])
Carrying(key) == {i \in DOMAIN file.content : file.content[i].category = key}
Uncategorised == Carrying(<< >>)

\* total, priceRange and averagePrice (in hundredths) are those of the
\* reference aggregation.
RefNumbers(stats) ==
    /\ stats.total = Len(file.content)
    /\ \E i \in DOMAIN file.content : stats.priceRange.min = RefPrice(i)
    /\ \E i \in DOMAIN file.content : stats.priceRange.max = RefPrice(i)
    /\ \A i \in DOMAIN file.content :
          stats.priceRange.min <= RefPrice(i) /\ RefPrice(i) <= stats.priceRange.max
    /\ 2 * stats.averagePrice * stats.total <= 200 * RefSum + stats.total
    /\ 200 * RefSum + stats.total < 2 * (stats.averagePrice + 1) * stats.total

----------------------------------------------------------------------------
(* Properties of the Items component *)

\* C26: after the Items component unmounts its pending work is cancelled: no
\* request started by the component (initial load, debounced search, page
\* change) is issued or left un-aborted, and the component performs no state
\* update after unmount.
C26_UnmountCancelsAll ==
    ~ui.mounted =>
        /\ \A r \in DOMAIN ui.requests :
              ui.requests[r].pc = "pending" => ui.requests[r].aborted
        /\ ~ui.lateIssue
        /\ ~ui.lateUpdate

\* The searchItems calls made so far.
Searches == {r \in DOMAIN ui.requests : ui.requests[r].kind = "search"}

\* Change k of the search input was followed by another change less than the
\* debounce delay later.
Superseded(k) ==
    \E j \in DOMAIN ui.changes :
        j > k /\ ui.changes[j].at < ui.changes[k].at + DebounceTicks

\* Change k was the last of its burst and the delay after it has passed with
\* no further change.
BurstEnded(k) ==
    /\ ui.now > ui.changes[k].at + DebounceTicks
    /\ \A j \in DOMAIN ui.changes :
          j > k => ui.changes[j].at > ui.changes[k].at + DebounceTicks

\* The searchItems calls issued one delay after change k, with its query.
CallsFor(k) ==
    {r \in Searches :
        /\ ui.requests[r].at = ui.changes[k].at + DebounceTicks
        /\ ui.requests[r].query = ui.changes[k].query}

\* C27: search is debounced by 300 ms: a burst of search-input changes, each
\* less than 300 ms after the previous one, triggers exactly one searchItems
\* call, issued 300 ms after the last change and carrying the last query.
C27_DebouncedSearch ==
    /\ \A k \in DOMAIN ui.changes :
          BurstEnded(k) => Cardinality(CallsFor(k)) = 1
    /\ \A r \in Searches :
          \E k \in DOMAIN ui.changes : ~Superseded(k) /\ r \in CallsFor(k)
    /\ Cardinality(Searches) <=
          Cardinality({k \in DOMAIN ui.changes : ~Superseded(k)})

\* Two changes with different queries came within the delay and one search
\* was issued, carrying the second query.
C27_Witness ==
    \E k \in DOMAIN ui.changes :
        /\ k > 1
        /\ Superseded(k - 1)
        /\ ui.changes[k - 1].query # ui.changes[k].query
        /\ ui.changes[k - 1].at < ui.changes[k].at
        /\ BurstEnded(k)
        /\ Cardinality(Searches) = 1

----------------------------------------------------------------------------
(* Further properties of the statistics cache *)

\* C29: the in-flight flag is never left dangling: in every reachable state
\* where the flag is true some getStatistics call is inside the
\* read-and-compute section, so once all calls have returned or failed the
\* flag is false.
C29_FlagNeverDangling ==
    statsCache.isCalculating => \E c \in Calls : calls[c].pc = "read"

\* Every issued call has returned or failed, one of them after its read
\* failed, and the flag is false.
C29_Witness ==
    /\ \A c \in Calls : calls[c].pc \in {"idle", "done", "failed"}
    /\ \E c \in Calls : calls[c].rejected = "read"
    /\ \E c \in Calls : calls[c].how = "computed"
    /\ ~statsCache.isCalculating

\* C30: a getStatistics call that fails at the marker check, on its first
\* attempt or on a retry made while waiting for another caller's computation,
\* leaves the whole cache entry unchanged: statistics, validFor and the
\* in-flight flag set by the other caller.
C30_MarkerFailureKeepsEntry ==
    [][\A c \in Calls :
          calls[c].pc = "stat" /\ calls'[c].pc = "failed" =>
              statsCache' = statsCache]_vars

\* C28: if every store operation completes and the data changes only finitely
\* often, every getStatistics call eventually returns statistics or an error,
\* callers that arrive while a computation is in flight included.
C28_EveryCallReturns ==
    \A c \in Calls :
        (calls[c].pc # "idle") ~> (calls[c].pc \in {"done", "failed"})

\* A call has retried once and waits again while another call's computation
\* is still in flight.
C28_Witness ==
    \E c, d \in Calls :
        /\ calls[c].pc = "wait"
        /\ calls[c].waits >= 1
        /\ calls[d].pc = "read"
----------------------------------------------------------------------------
\* C31: a step of the change poll empties statistics and validFor, leaves the
\* in-flight flag and every call as they were, and a call starts a computation
\* only from a state where the flag is clear; so a poll that arrives during a
\* computation leaves every other caller waiting.
C31_PollKeepsFlag ==
    [][ /\ (watcher' # watcher) =>
            /\ statsCache'.isCalculating = statsCache.isCalculating
            /\ statsCache'.data = Null
            /\ statsCache'.lastModified = NoMarker
            /\ calls' = calls
        /\ \A c \in Calls :
            (calls[c].pc # "read" /\ calls'[c].pc = "read") =>
                (~statsCache.isCalculating /\ statsCache'.isCalculating)
      ]_vars

\* The file was written and polled while one call was computing, and a call
\* that arrived after the write found the flag set and waits.
C31_Witness ==
    \E c, d \in Calls :
        /\ calls[d].pc = "read"
        /\ calls[d].currentModTime # file.mtime
        /\ watcher.gen = file.gen
        /\ statsCache.data = Null
        /\ statsCache.isCalculating
        /\ calls[c].pc = "wait"
        /\ calls[c].startGen = file.gen
        /\ file.gen > 0
----------------------------------------------------------------------------
RECURSIVE Concat(_)
Concat(pages) == IF pages = << >> THEN << >> ELSE Head(pages) \o Concat(Tail(pages))

\* The pages received by a client that has read up to the last page.
PagesRead == Append(list.seen, list.items)
LastPageRead ==
    /\ Listed
    /\ ~list.pagination.page.nan
    /\ list.pagination.page.n >= list.pagination.totalPages

\* C32: for every record collection, search term and page size >= 1, the pages
\* 1..totalPages of listItems concatenated in page order equal the filtered
\* list in its original order, no record is repeated or omitted, and every
\* page holds at most pageSize items.
C32_PagesPartition ==
    LastPageRead /\ list.pagination.pageSize >= 1 =>
        /\ Concat(PagesRead) = Filtered
        /\ Len(PagesRead) = Max(list.pagination.totalPages, 1)
        /\ \A k \in 1..Len(PagesRead) :
               /\ Len(PagesRead[k]) <= list.pagination.pageSize
               /\ k <= list.pagination.totalPages => PagesRead[k] # << >>
        /\ \A i, j \in 1..Len(Concat(PagesRead)) :
               i # j => Concat(PagesRead)[i].id # Concat(PagesRead)[j].id

\* A search that keeps some records and drops others was read in two pages,
\* the last of them partly filled.
C32_Witness ==
    /\ LastPageRead
    /\ list.q.t = "string"
    /\ Len(Filtered) < Len(file.content)
    /\ list.pagination.pageSize = 2
    /\ Len(list.seen) = 1
    /\ Len(list.items) = 1
----------------------------------------------------------------------------
(* Properties of the data context *)

InFlight == {r \in DOMAIN ui.requests : ui.requests[r].pc = "pending"}
Latest == Len(ui.requests)

\* C33: when several fetchItems requests overlap and their responses arrive in
\* any order, once all have completed the search query and page held by the
\* data context are those of the most recently issued request. Stated for a
\* most recent request that was answered successfully.
C33_LatestRequestWins ==
    InFlight = {} /\ ui.timers = {} /\ ui.requests[Latest].pc = "resolved" =>
        /\ ui.searchQuery = ui.requests[Latest].query
        /\ ui.page = ui.requests[Latest].page

\* C34: the loading flag of the data context is true whenever at least one
\* fetchItems request is in flight and false when none is, overlapping,
\* aborted and failed requests included.
C34_LoadingTracksRequests ==
    ui.loading <=> (InFlight # {})
====
